---- MODULE Spec2Model ----
(***************************************************************************)
(* Interaction grouping of the constraint solver                           *)
(* (src/dynamics/solver/interaction_groups.rs).                            *)
(*                                                                         *)
(*   InteractionGroups          the SIMD lane packer: group_joints,        *)
(*                              group_manifolds, clear, clear_groups       *)
(*   ParallelInteractionGroups  the greedy colouring: group_interactions   *)
(*                                                                         *)
(* A u128 mask is modelled as the set of its 1-bits, a subset of Slots.    *)
(* Interaction indices are 0-based as in the source; TLA+ sequences are    *)
(* 1-based, so interactions[i] of the source is Interactions[i + 1].       *)
(***************************************************************************)
EXTENDS Integers, Sequences, FiniteSets, TLC

\* ------------------------------------------------------------ constants

SIMD_WIDTH == 4
SIMD_LAST_INDEX == SIMD_WIDTH - 1
NUM_JOINT_TYPES == 5
MAX_COLORS == 128

Slots == 0 .. (MAX_COLORS - 1)
JointTypes == 0 .. (NUM_JOINT_TYPES - 1)

\* ------------------------------------------------------------ bounds

\* Longest freely chosen part of one interaction_indices argument.
MaxLen == 2
\* Grouping calls made on one InteractionGroups with no clear between them;
\* group_interactions calls made on one ParallelInteractionGroups.
MaxCalls == 2
\* Longest interaction_indices argument of group_interactions.
MaxParLen == 4

\* ------------------------------------------------------------ u128 masks

\* Not on a word one bit short.
Not_Narrow(m) == (0 .. (MAX_COLORS - 2)) \ m

\* (!m): the bitwise complement of a 128-bit word.
Not(m) == Slots \ m

\* trailing_zeros giving the index of the highest 1-bit.
trailing_zeros_Highest(m) ==
  IF m = {} THEN MAX_COLORS ELSE CHOOSE k \in m : \A j \in m : j <= k

\* m.trailing_zeros(): index of the lowest 1-bit, 128 for the zero word.
trailing_zeros(m) ==
  IF m = {} THEN MAX_COLORS ELSE CHOOSE k \in m : \A j \in m : k <= j

\* ------------------------------------------------------------ the caller's data

\* A rigid body as the grouping code reads it: is_dynamic() and
\* active_set_offset.
Dyn(off) == [dynamic |-> TRUE, active_set_offset |-> off]
Static(off) == [dynamic |-> FALSE, active_set_offset |-> off]

\* bodies.active_island(island_id).len()
NumIslandBodies == 10

\* A static body whose offset is the one of the dynamic body Dyn(0), and one
\* whose offset is the one of a dynamic body no interaction touches.
S0 == Static(0)
S9 == Static(NumIslandBodies - 1)

Interaction(b1, b2, k, t, simd) ==
  [body1 |-> b1, body2 |-> b2, num_active_contacts |-> k, type_id |-> t,
   supports_simd |-> simd]

\* Interactions on few bodies, of every kind the grouping code tells apart.
SparseInteractions ==
  << Interaction(Dyn(1), S0,     1, 0, TRUE),    \* 0
     Interaction(Dyn(2), S9,     1, 0, TRUE),    \* 1
     Interaction(S9,     Dyn(3), 1, 0, TRUE),    \* 2
     Interaction(Dyn(4), Dyn(5), 1, 0, TRUE),    \* 3
     Interaction(S9,     Dyn(6), 1, 0, TRUE),    \* 4
     Interaction(Dyn(7), S9,     1, 0, TRUE),    \* 5
     Interaction(Dyn(8), S9,     1, 0, TRUE),    \* 6
     Interaction(Dyn(6), S9,     2, 2, TRUE),    \* 7
     Interaction(S9,     S0,     1, 0, FALSE),   \* 8
     Interaction(Dyn(0), Dyn(1), 1, 0, TRUE),    \* 9
     Interaction(Dyn(2), Dyn(3), 0, 1, FALSE),   \* 10
     Interaction(Dyn(0), S9,     1, 0, TRUE),    \* 11
     Interaction(Dyn(2), Dyn(3), 1, 0, TRUE),    \* 12
     Interaction(Dyn(7), Dyn(8), 1, 0, TRUE) >>  \* 13

\* Many interactions on few dynamic bodies: a body of a dense island.
\*   - a star: the hub Dyn(8) against static bodies;
\*   - a bridge: the hub Dyn(8) against Dyn(7);
\*   - a second star: Dyn(6) against static bodies;
\*   - a link: Dyn(7) against Dyn(6).
StarSize == MAX_COLORS + 1
BridgeSize == MAX_COLORS \div 2 - 1
HelperSize == MAX_COLORS \div 2
LinkSize == 2

StarInteractions ==
  [j \in 1 .. StarSize |-> Interaction(Dyn(8), S9, 1, 0, TRUE)]
BridgeInteractions ==
  [j \in 1 .. BridgeSize |-> Interaction(Dyn(8), Dyn(7), 1, 0, TRUE)]
HelperInteractions ==
  [j \in 1 .. HelperSize |-> Interaction(Dyn(6), S9, 1, 0, TRUE)]
LinkInteractions ==
  [j \in 1 .. LinkSize |-> Interaction(Dyn(7), Dyn(6), 1, 0, TRUE)]

\* The first index of each dense family, and the length of the array.
FirstStar == Len(SparseInteractions)
FirstBridge == FirstStar + StarSize
FirstHelper == FirstBridge + BridgeSize
FirstLink == FirstHelper + HelperSize
NumInteractions == FirstLink + LinkSize

\* The interactions array of the caller: the sparse interactions followed by
\* the dense families. Read as contact manifolds, an entry has its body pair
\* and num_active_contacts; read as joints, its body pair, type_id and
\* supports_simd_constraints.
Interactions ==
  [e \in 1 .. NumInteractions |->
     IF e <= FirstStar THEN SparseInteractions[e]
     ELSE IF e <= FirstBridge THEN StarInteractions[e - FirstStar]
     ELSE IF e <= FirstHelper THEN BridgeInteractions[e - FirstBridge]
     ELSE IF e <= FirstLink THEN HelperInteractions[e - FirstHelper]
     ELSE LinkInteractions[e - FirstLink]]

Indices == 0 .. (NumInteractions - 1)

\* The n indices from first on.
Run(first, n) == [j \in 1 .. n |-> first + j - 1]

\* n interactions of the star, in index order.
Star(n) == Run(FirstStar, n)

\* 193 interactions in which no dynamic body is in MAX_COLORS or more:
\* Dyn(8) is in 127, Dyn(7) in 65, Dyn(6) in 66. The last one is between
\* Dyn(8), which took the colours below MAX_COLORS - 2 by then, and Dyn(7),
\* which took the two above with Dyn(6).
CrowdedPair ==
  Run(FirstStar, MAX_COLORS \div 2)
    \o Run(FirstBridge, MAX_COLORS \div 2 - 2)
    \o Run(FirstHelper, MAX_COLORS \div 2)
    \o Run(FirstLink, 2)
    \o Run(FirstBridge + MAX_COLORS \div 2 - 2, 1)

body1(i) == Interactions[i + 1].body1
body2(i) == Interactions[i + 1].body2
num_active_contacts(i) == Interactions[i + 1].num_active_contacts
type_id(i) == Interactions[i + 1].type_id
supports_simd_constraints(i) == Interactions[i + 1].supports_simd

\* The dynamic bodies of every interaction, by offset.
DynamicBodiesOf ==
  [i \in Indices |->
     {b.active_set_offset : b \in {x \in {body1(i), body2(i)} : x.dynamic}}]

DynamicBodies(i) == DynamicBodiesOf[i]

\* All sequences over A of length at most n.
SeqsUpTo(A, n) == UNION {[1 .. m -> A] : m \in 0 .. n}

\* The interaction_indices arguments explored: a fixed head followed by a
\* freely chosen tail over an alphabet.
\*   - no head, any index;
\*   - a head that leaves one bucket with SIMD_LAST_INDEX lanes, any index;
\*   - a head that completes one bucket, then indices on bodies the head did
\*     not touch (and some it did);
\*   - a head that completes one bucket and fills its slot again up to
\*     SIMD_LAST_INDEX lanes, then the same.
PartialHead == <<0, 1, 2>>
FullHead == <<0, 1, 2, 3>>
ReusedHead == <<0, 1, 2, 3, 9, 4, 5>>
MixAlphabet == {0, 1, 2, 3, 7, 8, 9, 10}
ReuseAlphabet == {0, 4, 5, 6, 7}

InputsOfLen(n) ==
  {t : t \in SeqsUpTo(MixAlphabet, n)}
    \cup {PartialHead \o t : t \in SeqsUpTo(MixAlphabet, n)}
    \cup {FullHead \o t : t \in SeqsUpTo(ReuseAlphabet, n)}
    \cup {ReusedHead \o t : t \in SeqsUpTo(ReuseAlphabet, n)}

\* An interaction on Dyn(0), then one between Dyn(1) and the static body that
\* carries the offset of Dyn(0).
SharedOffset == <<11, 0>>

\* SIMD_WIDTH joints of type 0 on pairwise disjoint pairs of dynamic bodies,
\* and the joint of type 2 on another body after the first, second or third.
SeparatedTypes ==
  {<<9, 7, 12, 3, 13>>, <<9, 12, 7, 3, 13>>, <<9, 12, 3, 7, 13>>}

\* Arguments explored besides: each is the argument of a first call. The star
\* opens every one of the MAX_COLORS buckets and has one interaction more.
SpecialInputs == {SharedOffset, Star(MAX_COLORS + 1)} \cup SeparatedTypes

\* The arguments of a call made on outputs an earlier call left uncleared.
FollowUps == {<< >>, FullHead, <<9, 8, 10>>}

\* The island sizes of the calls (the interactions touch offsets below
\* NumIslandBodies).
IslandSizes == {NumIslandBodies, NumIslandBodies + 1}

\* ------------------------------------------------------------ state

VARIABLES
  \* InteractionGroups
  buckets,                  \* VecMap: slot -> [lanes, fill]
  body_masks,               \* Vec<u128>
  grouped_interactions,
  nongrouped_interactions,
  \* locals of the running grouping call
  occupied_mask,
  joint_type_conflicts,
  interaction_indices,      \* the argument of the running / last call
  pos,                      \* position of the inner loop in interaction_indices
  k,                        \* group_manifolds: the outer loop variable
  max_interaction_points,
  pc,                       \* "idle", "group_joints", "group_manifolds", "panic"
  \* history
  last,                     \* the operation that returned last
  grouped_start,            \* |grouped_interactions| when the call started
  nongrouped_start,
  after_clear,              \* the call started right after clear()/clear_groups()
  ncalls,                   \* grouping calls since the outputs were last cleared
  \* ParallelInteractionGroups
  bodies_color,             \* Vec<u128>
  interaction_colors,       \* Vec<usize>
  sorted_interactions,
  groups,
  color_len                 \* local of group_interactions: [usize; 128]

vars ==
  << buckets, body_masks, grouped_interactions, nongrouped_interactions,
     occupied_mask, joint_type_conflicts, interaction_indices, pos, k,
     max_interaction_points, pc, last, grouped_start, nongrouped_start,
     after_clear, ncalls, bodies_color, interaction_colors,
     sorted_interactions, groups, color_len >>

simd_vars ==
  << buckets, body_masks, grouped_interactions, nongrouped_interactions,
     occupied_mask, joint_type_conflicts, k, max_interaction_points,
     grouped_start, nongrouped_start, after_clear >>

par_vars ==
  << bodies_color, interaction_colors, sorted_interactions, groups, color_len >>

\* ------------------------------------------------------------ VecMap

EmptyMap == [s \in {} |-> 0]

\* [0; SIMD_WIDTH]
ZeroLanes == [l \in 1 .. SIMD_WIDTH |-> 0]

\* buckets.entry(slot).or_insert_with(|| ([0; SIMD_WIDTH], 0))
Entry(b, slot) ==
  IF slot \in DOMAIN b THEN b[slot] ELSE [lanes |-> ZeroLanes, fill |-> 0]

Insert(b, slot, e) == [s \in (DOMAIN b) \cup {slot} |-> IF s = slot THEN e ELSE b[s]]

\* Flush dropping the contents of the partial buckets.
Flush_Nothing(b) == << >>

\* Flush without the take(e.1): every lane of every bucket, filled or not.
RECURSIVE AllLanesFrom(_, _, _)
AllLanesFrom(b, lo, hi) ==
  IF (lo .. hi) \cap DOMAIN b = {} THEN << >>
  ELSE IF lo = hi THEN b[lo].lanes
  ELSE LET mid == (lo + hi) \div 2
       IN  AllLanesFrom(b, lo, mid) \o AllLanesFrom(b, mid + 1, hi)

Flush_AllLanes(b) == AllLanesFrom(b, 0, MAX_COLORS - 1)

\* buckets.values().flat_map(|e| e.0.iter().take(e.1).copied()): the filled
\* lanes of every bucket, in increasing slot order (FlushFrom: those of the
\* buckets at the slots lo .. hi, the lower half before the upper half).
RECURSIVE FlushFrom(_, _, _)
FlushFrom(b, lo, hi) ==
  IF (lo .. hi) \cap DOMAIN b = {} THEN << >>
  ELSE IF lo = hi THEN SubSeq(b[lo].lanes, 1, b[lo].fill)
  ELSE LET mid == (lo + hi) \div 2
       IN  FlushFrom(b, lo, mid) \o FlushFrom(b, mid + 1, hi)

Flush(b) == FlushFrom(b, 0, MAX_COLORS - 1)

\* body_masks.resize(n, 0)
Resize(v, n) == [i \in 1 .. n |-> IF i <= Len(v) THEN v[i] ELSE {}]

\* Zeroed leaving the masks as they are.
Zeroed_Keep(v) == v

\* body_masks.iter_mut().for_each(|e| *e = 0)
Zeroed(v) == [i \in 1 .. Len(v) |-> {}]

\* ------------------------------------------------------------ the placement rule

\* The state a grouping call works on.
Workspace ==
  [buckets |-> buckets, body_masks |-> body_masks,
   occupied_mask |-> occupied_mask,
   joint_type_conflicts |-> joint_type_conflicts,
   grouped_interactions |-> grouped_interactions,
   nongrouped_interactions |-> nongrouped_interactions]

NoTypeConflicts == [t \in JointTypes |-> {}]

\* The workspace of InteractionGroups::new() entering a grouping call on an
\* island of n bodies.
FreshWorkspace(n) ==
  [buckets |-> EmptyMap, body_masks |-> Resize(<< >>, n),
   occupied_mask |-> {}, joint_type_conflicts |-> NoTypeConflicts,
   grouped_interactions |-> << >>, nongrouped_interactions |-> << >>]

is_static1(i) == ~ body1(i).dynamic
is_static2(i) == ~ body2(i).dynamic

\* body_masks[i1] | body_masks[i2]: both offsets are read, static or not.
BodyConflicts(masks, i) ==
  masks[body1(i).active_set_offset + 1] \cup masks[body2(i).active_set_offset + 1]

\* JointConflicts without the joint-type conflict table.
JointConflicts_BodiesOnly(ws, i) == BodyConflicts(ws.body_masks, i)

\* group_joints: body_masks[i1] | body_masks[i2] | joint_type_conflicts[ijoint]
JointConflicts(ws, i) ==
  BodyConflicts(ws.body_masks, i) \cup ws.joint_type_conflicts[type_id(i)]

\* group_manifolds: body_masks[i1] | body_masks[i2]
ManifoldConflicts(ws, i) == BodyConflicts(ws.body_masks, i)

\* TargetIndex refusing every slot of the conflicts word, occupied or not.
TargetIndex_AllConflicts(conflicts, occupied) ==
  LET conflictfree_targets == Not(conflicts)
      conflictfree_occupied_targets == conflictfree_targets \cap occupied
  IN  IF conflictfree_occupied_targets # {}
        THEN trailing_zeros(conflictfree_occupied_targets)
        ELSE trailing_zeros(conflictfree_targets)

\* conflictfree_targets, conflictfree_occupied_targets and target_index.
TargetIndex(conflicts, occupied) ==
  LET conflictfree_targets == Not(conflicts \cap occupied)
      conflictfree_occupied_targets == conflictfree_targets \cap occupied
  IN  IF conflictfree_occupied_targets # {}
        THEN trailing_zeros(conflictfree_occupied_targets)
        ELSE trailing_zeros(conflictfree_targets)

\* MarkBodies with the update of the second body left out.
MarkBodies_FirstOnly(masks, i, target) ==
  IF is_static1(i) THEN masks
  ELSE [masks EXCEPT ![body1(i).active_set_offset + 1] = @ \cup {target}]

\* if !is_static1 { body_masks[i1] |= bit }  if !is_static2 { body_masks[i2] |= bit }
MarkBodies(masks, i, target) ==
  LET m1 == IF is_static1(i) THEN masks
            ELSE [masks EXCEPT ![body1(i).active_set_offset + 1] = @ \cup {target}]
  IN  IF is_static2(i) THEN m1
      ELSE [m1 EXCEPT ![body2(i).active_set_offset + 1] = @ \cup {target}]

\* ConflictsCleared leaving the table as it is.
ConflictsCleared_Kept(jtc, target) == jtc

\* The joint-type conflict table after a bucket completed at target.
ConflictsCleared(jtc, target) == [t \in JointTypes |-> jtc[t] \ {target}]

\* ConflictsSet leaving the table as it is.
ConflictsSet_Unset(jtc, ijoint, target) == jtc

\* The joint-type conflict table after a joint of type ijoint entered target.
ConflictsSet(jtc, ijoint, target) ==
  [t \in JointTypes |-> IF t = ijoint THEN jtc[t] ELSE jtc[t] \cup {target}]

\* PushToBucket leaving the bit of a completed bucket in occupied_mask.
PushToBucket_StaysOccupied(ws, i, target) ==
  LET bucket == Entry(ws.buckets, target)
  IN  IF bucket.fill = SIMD_LAST_INDEX
        THEN LET lanes == [bucket.lanes EXCEPT ![SIMD_LAST_INDEX + 1] = i]
             IN  [ws EXCEPT
                    !.buckets = Insert(ws.buckets, target, [lanes |-> lanes, fill |-> 0]),
                    !.grouped_interactions = ws.grouped_interactions \o lanes]
        ELSE [ws EXCEPT
                !.buckets = Insert(ws.buckets, target,
                                   [lanes |-> [bucket.lanes EXCEPT ![bucket.fill + 1] = i],
                                    fill |-> bucket.fill + 1]),
                !.occupied_mask = ws.occupied_mask \cup {target}]

\* The bucket at target receives index i (the if bucket.1 == SIMD_LAST_INDEX
\* ... else ... of both grouping functions, without the conflict table).
PushToBucket(ws, i, target) ==
  LET bucket == Entry(ws.buckets, target)
  IN  IF bucket.fill = SIMD_LAST_INDEX
        THEN LET lanes == [bucket.lanes EXCEPT ![SIMD_LAST_INDEX + 1] = i]
             IN  [ws EXCEPT
                    !.buckets = Insert(ws.buckets, target, [lanes |-> lanes, fill |-> 0]),
                    !.grouped_interactions = ws.grouped_interactions \o lanes,
                    !.occupied_mask = ws.occupied_mask \ {target}]
        ELSE [ws EXCEPT
                !.buckets = Insert(ws.buckets, target,
                                   [lanes |-> [bucket.lanes EXCEPT ![bucket.fill + 1] = i],
                                    fill |-> bucket.fill + 1]),
                !.occupied_mask = ws.occupied_mask \cup {target}]

\* The conflict table after index i entered the bucket at target, which held
\* fill lanes before.
TypeConflictsAfter(jtc, fill, i, target) ==
  IF fill = SIMD_LAST_INDEX
    THEN ConflictsCleared(jtc, target)
    ELSE ConflictsSet(jtc, type_id(i), target)

\* WithoutSimd dropping the joint.
WithoutSimd_Dropped(ws, i) == ws

\* The joint does not support simd constraints:
\* nongrouped_interactions.push(*interaction_i); continue
WithoutSimd(ws, i) == [ws EXCEPT !.nongrouped_interactions = Append(@, i)]

\* The interaction conflicts with every bucket:
\* nongrouped_interactions.push(*interaction_i); continue
Spilled(ws, i) == [ws EXCEPT !.nongrouped_interactions = Append(@, i)]

\* JointIteration without the test for two static bodies.
JointIteration_StaticPairsKept(ws, i) ==
  IF ~ supports_simd_constraints(i) THEN WithoutSimd(ws, i)
  ELSE
    LET target_index == TargetIndex(JointConflicts(ws, i), ws.occupied_mask)
    IN  IF target_index = MAX_COLORS
          THEN Spilled(ws, i)
          ELSE LET fill == Entry(ws.buckets, target_index).fill
                   pushed == PushToBucket(ws, i, target_index)
               IN  [pushed EXCEPT
                      !.joint_type_conflicts =
                         TypeConflictsAfter(ws.joint_type_conflicts, fill, i, target_index),
                      !.body_masks = MarkBodies(ws.body_masks, i, target_index)]

\* One iteration of the loop of group_joints, on index i.
JointIteration(ws, i) ==
  IF is_static1(i) /\ is_static2(i) THEN ws
  ELSE IF ~ supports_simd_constraints(i) THEN WithoutSimd(ws, i)
  ELSE
    LET target_index == TargetIndex(JointConflicts(ws, i), ws.occupied_mask)
    IN  IF target_index = MAX_COLORS
          THEN Spilled(ws, i)
          ELSE LET fill == Entry(ws.buckets, target_index).fill
                   pushed == PushToBucket(ws, i, target_index)
               IN  [pushed EXCEPT
                      !.joint_type_conflicts =
                         TypeConflictsAfter(ws.joint_type_conflicts, fill, i, target_index),
                      !.body_masks = MarkBodies(ws.body_masks, i, target_index)]

\* One iteration of the inner loop of group_manifolds, on index i, in the
\* outer iteration for kk contact points.
ManifoldIteration(ws, i, kk) ==
  IF num_active_contacts(i) # kk THEN ws
  ELSE IF is_static1(i) /\ is_static2(i) THEN ws
  ELSE
    LET target_index == TargetIndex(ManifoldConflicts(ws, i), ws.occupied_mask)
    IN  IF target_index = MAX_COLORS
          THEN Spilled(ws, i)
          ELSE [PushToBucket(ws, i, target_index) EXCEPT
                  !.body_masks = MarkBodies(ws.body_masks, i, target_index)]

\* FlushPartial appending the partial buckets to grouped_interactions.
FlushPartial_ToGrouped(ws) ==
  [ws EXCEPT
     !.grouped_interactions = ws.grouped_interactions \o Flush(ws.buckets),
     !.buckets = EmptyMap,
     !.body_masks = Zeroed(ws.body_masks)]

\* The end of a pass: partial buckets go to nongrouped_interactions, the
\* bucket map is cleared and the body masks are zeroed.
FlushPartial(ws) ==
  [ws EXCEPT
     !.nongrouped_interactions = ws.nongrouped_interactions \o Flush(ws.buckets),
     !.buckets = EmptyMap,
     !.body_masks = Zeroed(ws.body_masks)]

\* FlushPass doing nothing: the buckets of a pass live on into the next.
FlushPass_Nothing(ws) == ws

\* group_manifolds resets occupied_mask with the flush of each pass.
FlushPass(ws) == [FlushPartial(ws) EXCEPT !.occupied_mask = {}]

\* The iterations of the loop of group_joints at the positions lo .. hi of
\* input, in order: those of the lower half, then those of the upper half.
RECURSIVE JointRange(_, _, _, _)
JointRange(ws, input, lo, hi) ==
  IF lo > hi THEN ws
  ELSE IF lo = hi THEN JointIteration(ws, input[lo])
  ELSE LET mid == (lo + hi) \div 2
           \* the workspace after the lower half, before the upper half starts
           lower == JointRange(ws, input, lo, mid)
       IN  IF DOMAIN lower.buckets \subseteq Slots
             THEN JointRange(lower, input, mid + 1, hi)
             ELSE lower

\* The loop of group_joints from position p of input on.
JointLoop(ws, input, p) == JointRange(ws, input, p, Len(input))

\* The iterations of the inner loop of group_manifolds for kk contact points
\* at the positions lo .. hi of input, in order.
RECURSIVE ManifoldRange(_, _, _, _, _)
ManifoldRange(ws, input, kk, lo, hi) ==
  IF lo > hi THEN ws
  ELSE IF lo = hi THEN ManifoldIteration(ws, input[lo], kk)
  ELSE LET mid == (lo + hi) \div 2
           lower == ManifoldRange(ws, input, kk, lo, mid)
       IN  IF DOMAIN lower.buckets \subseteq Slots
             THEN ManifoldRange(lower, input, kk, mid + 1, hi)
             ELSE lower

\* The inner loop of group_manifolds for kk contact points, from position p.
ManifoldLoop(ws, input, kk, p) == ManifoldRange(ws, input, kk, p, Len(input))

\* The outer loop of group_manifolds from kk to maxk.
RECURSIVE ManifoldPasses(_, _, _, _)
ManifoldPasses(ws, input, kk, maxk) ==
  IF kk > maxk THEN ws
  ELSE ManifoldPasses(FlushPass(ManifoldLoop(ws, input, kk, 1)), input, kk + 1, maxk)

\* interaction_indices.iter().map(num_active_contacts).max().unwrap_or(1)
MaxInteractionPoints(input) ==
  IF Len(input) = 0 THEN 1
  ELSE LET ks == {num_active_contacts(input[p]) : p \in 1 .. Len(input)}
       IN  CHOOSE m \in ks : \A x \in ks : x <= m

\* ------------------------------------------------------------ InteractionGroups

Init ==
  /\ buckets = EmptyMap
  /\ body_masks = << >>
  /\ grouped_interactions = << >>
  /\ nongrouped_interactions = << >>
  /\ occupied_mask = {}
  /\ joint_type_conflicts = NoTypeConflicts
  /\ interaction_indices = << >>
  /\ pos = 0
  /\ k = 0
  /\ max_interaction_points = 0
  /\ pc = "idle"
  /\ last = "new"
  /\ grouped_start = 0
  /\ nongrouped_start = 0
  /\ after_clear = FALSE
  /\ ncalls = 0
  /\ bodies_color = << >>
  /\ interaction_colors = << >>
  /\ sorted_interactions = << >>
  /\ groups = << >>
  /\ color_len = [c \in Slots |-> 0]

\* The arguments a grouping call may be started with in the current state.
Arguments ==
  IF ncalls = 0 THEN InputsOfLen(MaxLen) \cup SpecialInputs ELSE FollowUps

\* The island sizes a grouping call may be started with in the current state.
Islands == IF ncalls = 0 THEN IslandSizes ELSE {NumIslandBodies}

\* assert!(grouped_interactions.len() % SIMD_WIDTH == 0)
AssertGrouping(ws) ==
  IF Len(ws.grouped_interactions) % SIMD_WIDTH = 0 THEN "idle" ELSE "panic"

\* The fields of InteractionGroups take the values of ws.
Store(ws) ==
  /\ buckets' = ws.buckets
  /\ body_masks' = ws.body_masks
  /\ grouped_interactions' = ws.grouped_interactions
  /\ nongrouped_interactions' = ws.nongrouped_interactions

\* The call runs on with locals as in ws.
Continue(ws) ==
  /\ Store(ws)
  /\ occupied_mask' = ws.occupied_mask
  /\ joint_type_conflicts' = ws.joint_type_conflicts
  /\ UNCHANGED last

\* The call returns (or panics in its assertion); its locals are gone.
Return(ws, name) ==
  /\ Store(ws)
  /\ occupied_mask' = {}
  /\ joint_type_conflicts' = NoTypeConflicts
  /\ pc' = AssertGrouping(ws)
  /\ last' = name

\* The history recorded when a grouping call starts.
CallStarts(input) ==
  /\ interaction_indices' = input
  /\ grouped_start' = Len(grouped_interactions)
  /\ nongrouped_start' = Len(nongrouped_interactions)
  /\ after_clear' = (last \in {"clear", "clear_groups"})
  /\ ncalls' = ncalls + 1

\* The workspace at the top of the loops of a grouping call on an island of
\* n bodies.
Entered(n) ==
  [Workspace EXCEPT !.body_masks = Resize(body_masks, n),
                    !.occupied_mask = {},
                    !.joint_type_conflicts = NoTypeConflicts]

\* group_joints(island_id, bodies, interactions, interaction_indices), up to
\* the first iteration of its loop (to its end when the loop is empty).
GroupJoints(n, input) ==
  /\ UNCHANGED par_vars
  /\ pc = "idle"
  /\ ncalls < MaxCalls
  /\ CallStarts(input)
  /\ pos' = 0
  /\ UNCHANGED << k, max_interaction_points >>
  /\ IF Len(input) = 0
       THEN Return(FlushPartial(Entered(n)), "group_joints")
       ELSE Continue(Entered(n)) /\ pc' = "group_joints"

\* One iteration of the loop of group_joints; the last one runs to the end of
\* the function.
GroupJointsStep ==
  /\ UNCHANGED par_vars
  /\ pc = "group_joints"
  /\ LET ws == JointIteration(Workspace, interaction_indices[pos + 1])
     IN  IF pos + 1 = Len(interaction_indices)
           THEN Return(FlushPartial(ws), "group_joints")
           ELSE Continue(ws) /\ pc' = pc
  /\ pos' = pos + 1
  /\ UNCHANGED << interaction_indices, k, max_interaction_points,
                  grouped_start, nongrouped_start, after_clear, ncalls >>

\* group_manifolds(island_id, bodies, interactions, interaction_indices), up
\* to the first iteration of its inner loop (to its end when a loop is empty).
GroupManifolds(n, input) ==
  /\ UNCHANGED par_vars
  /\ pc = "idle"
  /\ ncalls < MaxCalls
  /\ CallStarts(input)
  /\ pos' = 0
  /\ max_interaction_points' = MaxInteractionPoints(input)
  /\ k' = 1
  /\ IF MaxInteractionPoints(input) < 1
       THEN Return(Entered(n), "group_manifolds")
       ELSE IF Len(input) = 0
         THEN Return(FlushPass(Entered(n)), "group_manifolds")
         ELSE Continue(Entered(n)) /\ pc' = "group_manifolds"

\* One iteration of the inner loop of group_manifolds; the last one of a pass
\* runs the end of the pass, the last one of the last pass runs to the end of
\* the function.
GroupManifoldsStep ==
  /\ UNCHANGED par_vars
  /\ pc = "group_manifolds"
  /\ LET ws == ManifoldIteration(Workspace, interaction_indices[pos + 1], k)
     IN  IF pos + 1 < Len(interaction_indices)
           THEN /\ Continue(ws) /\ pc' = pc
                /\ pos' = pos + 1
                /\ k' = k
           ELSE IF k < max_interaction_points
             THEN /\ Continue(FlushPass(ws)) /\ pc' = pc
                  /\ pos' = 0
                  /\ k' = k + 1
             ELSE /\ Return(FlushPass(ws), "group_manifolds")
                  /\ pos' = pos + 1
                  /\ k' = k
  /\ UNCHANGED << interaction_indices, max_interaction_points,
                  grouped_start, nongrouped_start, after_clear, ncalls >>

\* Between calls the locals and the argument of the last call are gone.
Forgotten ==
  /\ occupied_mask' = {}
  /\ joint_type_conflicts' = NoTypeConflicts
  /\ interaction_indices' = << >>
  /\ pos' = 0
  /\ k' = 0
  /\ max_interaction_points' = 0
  /\ grouped_start' = 0
  /\ nongrouped_start' = 0
  /\ after_clear' = FALSE

\* clear()
Clear ==
  /\ UNCHANGED par_vars
  /\ pc = "idle"
  /\ last \in {"group_joints", "group_manifolds"}
  /\ buckets' = EmptyMap
  /\ body_masks' = << >>
  /\ grouped_interactions' = << >>
  /\ nongrouped_interactions' = << >>
  /\ last' = "clear"
  /\ ncalls' = 0
  /\ Forgotten
  /\ UNCHANGED pc

\* clear_groups()
ClearGroups ==
  /\ UNCHANGED par_vars
  /\ pc = "idle"
  /\ last \in {"group_joints", "group_manifolds"}
  /\ grouped_interactions' = << >>
  /\ nongrouped_interactions' = << >>
  /\ last' = "clear_groups"
  /\ ncalls' = 0
  /\ Forgotten
  /\ UNCHANGED << buckets, body_masks, pc >>

Next ==
  \/ \E n \in Islands, input \in Arguments : GroupJoints(n, input)
  \/ GroupJointsStep
  \/ \E n \in Islands, input \in Arguments : GroupManifolds(n, input)
  \/ GroupManifoldsStep
  \/ Clear
  \/ ClearGroups

Spec == Init /\ [][Next]_vars

TypeOK ==
  /\ pc \in {"idle", "group_joints", "group_manifolds", "group_interactions",
            "panic"}
  /\ DOMAIN buckets \subseteq Slots
  /\ occupied_mask \subseteq Slots

\* ------------------------------------------------------------ ParallelInteractionGroups

\* The arguments of group_interactions explored; a later call on the same
\* ParallelInteractionGroups gets one of a few.
ParAlphabet == {0, 1, 2, 3, 8, 9, 10}
ParFollowUps == {<< >>, <<9, 0>>, <<1, 10, 2, 3>>}
\* Arguments that make a body meet many colours: the star up to its last
\* interaction but one, the whole star, and the crowded pair.
DenseArguments == {Star(MAX_COLORS), Star(MAX_COLORS + 1), CrowdedPair}
ParArguments ==
  IF ncalls = 0 THEN SeqsUpTo(ParAlphabet, MaxParLen) \cup DenseArguments
  ELSE ParFollowUps

\* color_mask of the match arms: the masks of the non-static bodies.
ColorMask(bcolors, i) ==
  (IF is_static1(i) THEN {} ELSE bcolors[body1(i).active_set_offset + 1])
    \cup (IF is_static2(i) THEN {} ELSE bcolors[body2(i).active_set_offset + 1])

\* Painted with the update of the second body left out.
Painted_FirstOnly(bcolors, i, color) ==
  IF is_static1(i) THEN bcolors
  ELSE [bcolors EXCEPT ![body1(i).active_set_offset + 1] = @ \cup {color}]

\* bcolors[rb.active_set_offset] |= 1 << color, for the non-static bodies.
Painted(bcolors, i, color) ==
  LET m1 == IF is_static1(i) THEN bcolors
            ELSE [bcolors EXCEPT ![body1(i).active_set_offset + 1] = @ \cup {color}]
  IN  IF is_static2(i) THEN m1
      ELSE [m1 EXCEPT ![body2(i).active_set_offset + 1] = @ \cup {color}]

\* The state the colouring loop works on.
Colouring ==
  [bodies_color |-> bodies_color, interaction_colors |-> interaction_colors,
   color_len |-> color_len, panicked |-> FALSE]

\* One iteration of the colouring loop, on the p-th index i of the argument.
\* (true, true) is unreachable!(); colour 128 indexes color_len out of bounds.
ColorIteration(cs, p, i) ==
  IF is_static1(i) /\ is_static2(i) THEN [cs EXCEPT !.panicked = TRUE]
  ELSE LET color == trailing_zeros(Not(ColorMask(cs.bodies_color, i)))
       IN  IF color = MAX_COLORS
             THEN [cs EXCEPT !.interaction_colors[p] = color, !.panicked = TRUE]
             ELSE [cs EXCEPT
                     !.interaction_colors[p] = color,
                     !.color_len[color] = @ + 1,
                     !.bodies_color = Painted(cs.bodies_color, i, color)]

\* The number of iterations of the offset loop before its break.
NumColors(cl) == trailing_zeros({c \in Slots : cl[c] = 0})

\* color_len[lo] + ... + color_len[hi], summed by halves.
RECURSIVE SumLen(_, _, _)
SumLen(cl, lo, hi) ==
  IF lo > hi THEN 0
  ELSE IF lo = hi THEN cl[lo]
  ELSE LET mid == (lo + hi) \div 2
       IN  SumLen(cl, lo, mid) + SumLen(cl, mid + 1, hi)

\* last_offset when the offset loop reaches colour c.
OffsetOf(cl, c) == SumLen(cl, 0, c - 1)

\* groups after the offset loop.
GroupStarts(cl) == [g \in 1 .. NumColors(cl) |-> OffsetOf(cl, g - 1)]

\* SortOffsets without the start offsets of the colours.
SortOffsets_Zero(cl) == [c \in Slots |-> 0]

\* sort_offsets after the offset loop.
SortOffsets(cl) ==
  [c \in Slots |-> IF c < NumColors(cl) THEN OffsetOf(cl, c) ELSE 0]

\* The scatter loop from position p0 on, position by position:
\* sorted_interactions[sort_offsets[color]] = id; sort_offsets[color] += 1.
\* Position p finds sort_offsets[color] raised once by every earlier position
\* of its colour; the loop panics at the first position whose offset is past
\* the end, and a slot written twice keeps the later write.
Scatter(sorted, offsets, input, colors, p0) ==
  LET n == Len(input)
      at == [p \in 1 .. n |->
               offsets[colors[p]]
                 + Cardinality({q \in p0 .. (p - 1) : colors[q] = colors[p]})]
      past == {p \in p0 .. n : at[p] >= Len(sorted)}
      stop == IF past = {} THEN n + 1
              ELSE CHOOSE p \in past : \A q \in past : p <= q
      writes(d) == {p \in p0 .. (stop - 1) : at[p] = d - 1}
  IN  IF Len(at) < p0 THEN [sorted |-> sorted, panicked |-> FALSE]
      ELSE [sorted |-> [d \in 1 .. Len(sorted) |->
                          IF writes(d) = {} THEN sorted[d]
                          ELSE input[CHOOSE p \in writes(d) :
                                       \A q \in writes(d) : q <= p]],
            panicked |-> past # {}]

\* group_interactions from the end of the colouring loop to its return.
SortByColor(cs, input) ==
  LET scattered == Scatter([p \in 1 .. Len(input) |-> 0],
                           SortOffsets(cs.color_len), input,
                           cs.interaction_colors, 1)
  IN  /\ sorted_interactions' = scattered.sorted
      /\ groups' = IF scattered.panicked THEN GroupStarts(cs.color_len)
                   ELSE Append(GroupStarts(cs.color_len), Len(input))
      /\ pc' = IF scattered.panicked THEN "panic" ELSE "idle"
      /\ last' = "group_interactions"

StoreColouring(cs) ==
  /\ bodies_color' = cs.bodies_color
  /\ interaction_colors' = cs.interaction_colors
  /\ color_len' = cs.color_len

\* The workspaces after the clear() and resize() calls that open
\* group_interactions, on an island of n bodies.
FreshColouring(n, input) ==
  [bodies_color |-> [b \in 1 .. n |-> {}],
   interaction_colors |-> [p \in 1 .. Len(input) |-> 0],
   color_len |-> [c \in Slots |-> 0],
   panicked |-> FALSE]

\* group_interactions(island_id, bodies, interactions, interaction_indices),
\* up to the first iteration of the colouring loop (to its end for an empty
\* argument).
GroupInteractions(n, input) ==
  /\ UNCHANGED simd_vars
  /\ pc = "idle"
  /\ ncalls < MaxCalls
  /\ ncalls' = ncalls + 1
  /\ interaction_indices' = input
  /\ pos' = 0
  /\ LET cs == FreshColouring(n, input)
     IN  /\ StoreColouring(cs)
         /\ IF Len(input) = 0
              THEN SortByColor(cs, input)
              ELSE /\ sorted_interactions' = << >>
                   /\ groups' = << >>
                   /\ pc' = "group_interactions"
                   /\ UNCHANGED last

\* One iteration of the colouring loop; the last one runs to the end of the
\* function.
GroupInteractionsStep ==
  /\ UNCHANGED simd_vars
  /\ pc = "group_interactions"
  /\ pos' = pos + 1
  /\ UNCHANGED << interaction_indices, ncalls >>
  /\ LET cs == ColorIteration(Colouring, pos + 1, interaction_indices[pos + 1])
     IN  /\ StoreColouring(cs)
         /\ IF cs.panicked
              THEN /\ pc' = "panic"
                   /\ UNCHANGED << sorted_interactions, groups, last >>
              ELSE IF pos + 1 = Len(interaction_indices)
                THEN SortByColor(cs, interaction_indices)
                ELSE UNCHANGED << sorted_interactions, groups, pc, last >>

NextPar ==
  \/ \E input \in ParArguments : GroupInteractions(NumIslandBodies, input)
  \/ GroupInteractionsStep

SpecPar == Init /\ [][NextPar]_vars

\* ------------------------------------------------------------ both groupers

\* A solver that owns an InteractionGroups and a ParallelInteractionGroups and
\* calls either, on a few arguments, clearing the first now and then.
NextBoth ==
  \/ \E input \in FollowUps : GroupJoints(NumIslandBodies, input)
  \/ GroupJointsStep
  \/ \E input \in FollowUps : GroupManifolds(NumIslandBodies, input)
  \/ GroupManifoldsStep
  \/ Clear
  \/ ClearGroups
  \/ \E input \in ParFollowUps : GroupInteractions(NumIslandBodies, input)
  \/ GroupInteractionsStep

SpecBoth == Init /\ [][NextBoth]_vars

\* ------------------------------------------------------------ properties

Range(seq) == {seq[p] : p \in 1 .. Len(seq)}

\* How often x occurs in seq.
Count(seq, x) == Cardinality({p \in 1 .. Len(seq) : seq[p] = x})

\* The b-th contiguous SIMD_WIDTH-block of seq, b >= 1.
Block(seq, b) == SubSeq(seq, SIMD_WIDTH * (b - 1) + 1, SIMD_WIDTH * b)

NumBlocks(seq) == Len(seq) \div SIMD_WIDTH

\* The lanes in use of the bucket at slot s.
FilledLanes(s) == SubSeq(buckets[s].lanes, 1, buckets[s].fill)

PairwiseDisjointBodies(lanes) ==
  \A p, q \in 1 .. Len(lanes) :
    p < q => DynamicBodies(lanes[p]) \cap DynamicBodies(lanes[q]) = {}

StaticStatic(i) == is_static1(i) /\ is_static2(i)

\* A grouping call of the packer is running or was the last to return.
InOrAfter(name) == pc = name \/ (pc = "idle" /\ last = name)

Returned(name) == pc = "idle" /\ last = name

\* What the running / last grouping call appended to the outputs.
GroupedByCall ==
  SubSeq(grouped_interactions, grouped_start + 1, Len(grouped_interactions))
NongroupedByCall ==
  SubSeq(nongrouped_interactions, nongrouped_start + 1,
         Len(nongrouped_interactions))

\* C1: every contiguous SIMD_WIDTH-block of grouped_interactions holds
\* interactions whose dynamic-body sets are pairwise disjoint, and so do the
\* lanes of every bucket being filled, also in a slot that completed a bucket
\* before.
C1_DisjointBodiesInBlocks ==
  /\ \A b \in 1 .. NumBlocks(grouped_interactions) :
       PairwiseDisjointBodies(Block(grouped_interactions, b))
  /\ \A s \in DOMAIN buckets : PairwiseDisjointBodies(FilledLanes(s))

\* Slot 0 completed a bucket, was filled again and completed a second one.
C1_Witness ==
  /\ pc \in {"group_joints", "group_manifolds"}
  /\ GroupedByCall = <<0, 1, 2, 3, 9, 4, 5, 6>>
  /\ 0 \in DOMAIN buckets

SingleType(lanes) ==
  \A p, q \in 1 .. Len(lanes) : type_id(lanes[p]) = type_id(lanes[q])

\* C3: during and after group_joints, every SIMD_WIDTH-block the call
\* appended to grouped_interactions holds joints of one type_id, and at every
\* step the lanes of a partially filled bucket hold joints of one type_id.
C3_SingleJointTypeInBlocks ==
  InOrAfter("group_joints") =>
    /\ \A b \in 1 .. NumBlocks(GroupedByCall) : SingleType(Block(GroupedByCall, b))
    /\ \A s \in DOMAIN buckets : SingleType(FilledLanes(s))

\* A joint of type 2 met a bucket of three type-0 joints whose bodies it does
\* not share, and the bucket was then completed by a fourth type-0 joint.
C3_Witness ==
  /\ Returned("group_joints")
  /\ interaction_indices = <<0, 1, 2, 7, 3>>
  /\ GroupedByCall = <<0, 1, 2, 3>>
  /\ NongroupedByCall = <<7>>

SingleContactCount(lanes) ==
  \A p, q \in 1 .. Len(lanes) :
    num_active_contacts(lanes[p]) = num_active_contacts(lanes[q])

\* C4: during and after group_manifolds, every SIMD_WIDTH-block the call
\* appended to grouped_interactions holds manifolds of one
\* num_active_contacts; every pass starts with no bucket, occupied_mask zero
\* and all body masks zero, and a bucket filled during the pass for k holds
\* manifolds with k contacts only.
C4_SingleContactCountInBlocks ==
  InOrAfter("group_manifolds") =>
    /\ \A b \in 1 .. NumBlocks(GroupedByCall) :
         SingleContactCount(Block(GroupedByCall, b))
    /\ pc = "group_manifolds" =>
         /\ \A s \in DOMAIN buckets :
              \A p \in 1 .. buckets[s].fill :
                num_active_contacts(buckets[s].lanes[p]) = k
         /\ pos = 0 =>
              /\ buckets = EmptyMap
              /\ occupied_mask = {}
              /\ \A b \in 1 .. Len(body_masks) : body_masks[b] = {}

\* The pass for one contact left a bucket of three manifolds; the pass for two
\* contacts starts, and has a manifold on other bodies to place.
C4_Witness ==
  /\ pc = "group_manifolds"
  /\ interaction_indices = <<0, 1, 2, 7>>
  /\ k = 2
  /\ pos = 0
  /\ NongroupedByCall = <<0, 1, 2>>

\* The outputs of the last call hold every index of its argument as often as
\* the argument does, except the static-static pairs, which they do not hold.
OutputsAreInputMinusStaticPairs ==
  \A i \in Indices :
    Count(GroupedByCall \o NongroupedByCall, i)
      = IF StaticStatic(i) THEN 0 ELSE Count(interaction_indices, i)

\* C5: after group_joints called with empty outputs, grouped_interactions and
\* nongrouped_interactions together hold every index of the argument exactly
\* as often as the argument holds it, except the indices of joints between
\* two static bodies, which they do not hold.
C5_JointsOutputIsInputMinusStaticPairs ==
  (Returned("group_joints") /\ grouped_start = 0 /\ nongrouped_start = 0)
    => OutputsAreInputMinusStaticPairs

\* A call whose argument holds a static-static joint, and joints that complete
\* a bucket around it.
C5_Witness ==
  /\ Returned("group_joints")
  /\ grouped_start = 0 /\ nongrouped_start = 0
  /\ interaction_indices = <<0, 1, 2, 8, 3>>
  /\ grouped_interactions = <<0, 1, 2, 3>>
  /\ nongrouped_interactions = << >>

\* ------------------------------------------------------------ properties, continued

\* C6: after group_manifolds called with empty outputs, the two outputs
\* together hold every index of the argument exactly as often as the argument
\* holds it, except the static-static pairs, whatever num_active_contacts
\* (0 included) the manifolds have.
C6_ManifoldsOutputIsInputMinusStaticPairs ==
  (Returned("group_manifolds") /\ grouped_start = 0 /\ nongrouped_start = 0)
    => OutputsAreInputMinusStaticPairs

\* C8: the length of grouped_interactions is a multiple of SIMD_WIDTH in every
\* state that calls of group_manifolds, group_joints, clear and clear_groups
\* reach, and no call panics in its assertion.
C8_GroupedLengthMultipleOfWidth ==
  /\ Len(grouped_interactions) % SIMD_WIDTH = 0
  /\ pc # "panic"

\* A second grouping call returned on outputs that held a completed bucket and
\* the first call left a partial bucket behind; the second completed one more.
C8_Witness ==
  /\ pc = "idle"
  /\ ncalls = 2
  /\ grouped_start = 4
  /\ nongrouped_start > 0
  /\ Len(grouped_interactions) = 8

\* C9 as stated: after group_joints, every index of the argument whose joint
\* does not support simd constraints is among what the call appended to
\* nongrouped_interactions and not among what it appended to
\* grouped_interactions.
C9_Original_WithoutSimdIsNongrouped ==
  Returned("group_joints") =>
    \A p \in 1 .. Len(interaction_indices) :
      ~ supports_simd_constraints(interaction_indices[p]) =>
        /\ interaction_indices[p] \in Range(NongroupedByCall)
        /\ interaction_indices[p] \notin Range(GroupedByCall)

\* C9 amended: after group_joints, every index of the argument whose joint
\* does not support simd constraints and has at least one dynamic body is
\* among what the call appended to nongrouped_interactions, as often as in the
\* argument, and not among what it appended to grouped_interactions; the index
\* of a joint between two static bodies is in neither.
C9_WithoutSimdIsNongrouped ==
  Returned("group_joints") =>
    \A p \in 1 .. Len(interaction_indices) :
      LET i == interaction_indices[p]
      IN  ~ supports_simd_constraints(i) =>
            /\ i \notin Range(GroupedByCall)
            /\ Count(NongroupedByCall, i)
                 = IF StaticStatic(i) THEN 0 ELSE Count(interaction_indices, i)

\* A call whose argument holds a joint without simd support on dynamic bodies
\* and one between two static bodies.
C9_Witness ==
  /\ Returned("group_joints")
  /\ interaction_indices = <<0, 1, 2, 10, 8>>
  /\ NongroupedByCall = <<10, 0, 1, 2>>

\* What group_joints / group_manifolds leave in the outputs when called on
\* InteractionGroups::new() for an island of n bodies.
JointsOnFresh(n, input) == FlushPartial(JointLoop(FreshWorkspace(n), input, 1))
ManifoldsOnFresh(n, input) ==
  ManifoldPasses(FreshWorkspace(n), input, 1, MaxInteractionPoints(input))

OnFresh(name, n, input) ==
  IF name = "group_joints" THEN JointsOnFresh(n, input)
  ELSE ManifoldsOnFresh(n, input)

\* C10: every grouping call returns with no bucket and all body masks zero,
\* and a grouping call made after clear() or clear_groups(), whatever calls
\* came before, leaves in grouped_interactions and nongrouped_interactions
\* what the same call leaves on a newly constructed InteractionGroups.
C10_WorkspaceDoesNotPersist ==
  /\ pc = "idle" =>
       /\ buckets = EmptyMap
       /\ \A b \in 1 .. Len(body_masks) : body_masks[b] = {}
  /\ (pc = "idle" /\ last \in {"group_joints", "group_manifolds"} /\ after_clear) =>
       LET fresh == OnFresh(last, Len(body_masks), interaction_indices)
       IN  /\ grouped_interactions = fresh.grouped_interactions
           /\ nongrouped_interactions = fresh.nongrouped_interactions

\* A grouping call that completed a bucket and left a partial one returned,
\* having started right after a clear of an InteractionGroups used before.
C10_Witness ==
  /\ pc = "idle"
  /\ last \in {"group_joints", "group_manifolds"}
  /\ after_clear
  /\ Len(grouped_interactions) = 4
  /\ Len(nongrouped_interactions) = 2

\* The indices at the positions from p on of the argument that were given
\* colour c, in the order of the argument.
ColorClass(input, colors, c, p) ==
  LET ps == {q \in p .. Len(input) : colors[q] = c}
  IN  [r \in 1 .. Cardinality(ps) |->
         input[CHOOSE q \in ps : Cardinality({x \in ps : x < q}) = r - 1]]

\* C2: after group_interactions, two interactions at different positions of
\* the argument that got the same colour share no dynamic body; so it is
\* during the colouring, for the positions coloured so far.
C2_SameColorSharesNoDynamicBody ==
  InOrAfter("group_interactions") =>
    LET done == IF pc = "idle" THEN Len(interaction_indices) ELSE pos
    IN  \A p, q \in 1 .. done :
          (p # q /\ interaction_colors[p] = interaction_colors[q]) =>
            DynamicBodies(interaction_indices[p])
              \cap DynamicBodies(interaction_indices[q]) = {}

\* A call returned that gave one colour to two interactions and had to give
\* another to two that share a body, one of them with a static body.
C2_Witness ==
  /\ Returned("group_interactions")
  /\ interaction_indices = <<10, 2, 3, 1>>
  /\ interaction_colors = <<0, 1, 0, 1>>

\* C7: after group_interactions, sorted_interactions is a permutation of the
\* argument; groups has one entry per colour in use and one more, starts with
\* 0 and ends with the length of the argument; and for every colour c the
\* slice sorted_interactions[groups[c] .. groups[c + 1]] is the indices given
\* colour c, in the order of the argument.
C7_SortedByColor ==
  Returned("group_interactions") =>
    LET input == interaction_indices
        used == Range(interaction_colors)
        num_colors == Cardinality(used)
    IN  /\ Len(sorted_interactions) = Len(input)
        /\ \A i \in Indices : Count(sorted_interactions, i) = Count(input, i)
        /\ Len(groups) = num_colors + 1
        /\ groups[1] = 0
        /\ groups[Len(groups)] = Len(input)
        /\ \A c \in 0 .. (num_colors - 1) :
             SubSeq(sorted_interactions, groups[c + 1] + 1, groups[c + 2])
               = ColorClass(input, interaction_colors, c, 1)

\* A call returned that used three colours, the first for two interactions
\* that are not neighbours in the argument.
C7_Witness ==
  /\ Returned("group_interactions")
  /\ interaction_indices = <<9, 0, 1, 9>>
  /\ groups = <<0, 2, 3, 4>>
  /\ sorted_interactions = <<9, 1, 0, 9>>

\* ------------------------------------------------------------ outputs across calls

\* The colouring loop of group_interactions from position p on.
RECURSIVE ColorLoop(_, _, _)
ColorLoop(cs, input, p) ==
  IF p > Len(input) \/ cs.panicked THEN cs
  ELSE ColorLoop(ColorIteration(cs, p, input[p]), input, p + 1)

\* What group_interactions leaves in sorted_interactions and groups when
\* called on ParallelInteractionGroups::new() for an island of n bodies.
InteractionsOnFresh(n, input) ==
  LET cs == ColorLoop(FreshColouring(n, input), input, 1)
      scattered == Scatter([p \in 1 .. Len(input) |-> 0],
                           SortOffsets(cs.color_len), input,
                           cs.interaction_colors, 1)
  IN  [sorted_interactions |-> scattered.sorted,
       groups |-> Append(GroupStarts(cs.color_len), Len(input))]

IsPrefix(s, t) == Len(s) <= Len(t) /\ SubSeq(t, 1, Len(s)) = s

\* sorted_interactions and groups after group_interactions are the ones of
\* the same call on a new ParallelInteractionGroups.
InteractionsRecomputed ==
  Returned("group_interactions") =>
    LET fresh == InteractionsOnFresh(Len(bodies_color), interaction_indices)
    IN  /\ sorted_interactions = fresh.sorted_interactions
        /\ groups = fresh.groups

\* C11 as stated: after group_joints or group_manifolds, whatever calls came
\* before, grouped_interactions and nongrouped_interactions hold indices of
\* that call's argument only; after group_interactions, sorted_interactions
\* and groups are the ones of the same call on a new ParallelInteractionGroups.
C11_Original_OutputsAreFresh ==
  /\ (Returned("group_joints") \/ Returned("group_manifolds")) =>
       Range(grouped_interactions) \cup Range(nongrouped_interactions)
         \subseteq Range(interaction_indices)
  /\ InteractionsRecomputed

\* C11 amended: group_joints and group_manifolds append to the outputs. What
\* grouped_interactions and nongrouped_interactions held when the call started
\* stays as their prefix at every step, and what the call appends are indices
\* of its argument only; so the outputs hold indices of the argument only when
\* the call started on empty outputs. group_interactions recomputes
\* sorted_interactions and groups: they are the ones of the same call on a new
\* ParallelInteractionGroups.
C11_OutputsAreAppended ==
  /\ [](/\ (InOrAfter("group_joints") \/ InOrAfter("group_manifolds")) =>
            Range(GroupedByCall) \cup Range(NongroupedByCall)
              \subseteq Range(interaction_indices)
        /\ InteractionsRecomputed)
  /\ [][last' \notin {"clear", "clear_groups"} =>
          /\ IsPrefix(grouped_interactions, grouped_interactions')
          /\ IsPrefix(nongrouped_interactions, nongrouped_interactions')]_vars

\* A second group_joints call returned on outputs an earlier call had left,
\* with none of the indices of the first call in its argument.
C11_Witness ==
  /\ Returned("group_joints")
  /\ interaction_indices = <<9, 8, 10>>
  /\ grouped_interactions = <<0, 1, 2, 3>>
  /\ nongrouped_interactions = <<10, 9>>

\* ------------------------------------------------------------ the 128 colours

\* C12: in group_interactions, when an interaction finds every one of the
\* MAX_COLORS colours forbidden by the masks of its dynamic bodies (its
\* trailing_zeros is MAX_COLORS), the call does not fail: it runs on or has
\* returned with outputs.
C12_AllColorsForbiddenDoesNotFail ==
  InOrAfter("group_interactions") \/ pc = "panic" =>
    \A p \in 1 .. Len(interaction_colors) :
      interaction_colors[p] = MAX_COLORS =>
        pc \in {"group_interactions", "idle"}

\* The number of positions of input whose interaction has the dynamic body
\* of offset b.
Degree(input, b) ==
  Cardinality({p \in 1 .. Len(input) : b \in DynamicBodies(input[p])})

\* Every dynamic body is in fewer than MAX_COLORS interactions of input.
DegreesBelowMaxColors(input) ==
  \A p \in 1 .. Len(input) :
    \A b \in DynamicBodies(input[p]) : Degree(input, b) < MAX_COLORS

\* The other interactions of input that the dynamic bodies of interaction i
\* are in, counted body by body.
RECURSIVE OthersOn(_, _)
OthersOn(input, bs) ==
  IF bs = {} THEN 0
  ELSE LET b == CHOOSE x \in bs : TRUE
       IN  (Degree(input, b) - 1) + OthersOn(input, bs \ {b})

\* For every interaction of input, those others are fewer than MAX_COLORS.
PairDegreesBelowMaxColors(input) ==
  \A p \in 1 .. Len(input) :
    OthersOn(input, DynamicBodies(input[p])) < MAX_COLORS

\* The colours given so far are colours.
ColorsInRange ==
  \A p \in 1 .. pos : interaction_colors[p] \in 0 .. (MAX_COLORS - 1)

\* C13 as stated: if every dynamic body is in fewer than MAX_COLORS of the
\* interactions of the argument, group_interactions gives every interaction a
\* colour in [0, MAX_COLORS).
C13_Original_DegreeBoundSuffices ==
  (pc \in {"group_interactions", "panic"} \/ Returned("group_interactions")) =>
    (ColorsInRange \/ ~ DegreesBelowMaxColors(interaction_indices))

\* No interaction of input is between two static bodies.
NoStaticPairs(input) == \A p \in 1 .. Len(input) : ~ StaticStatic(input[p])

\* C13 amended: if no interaction of the argument is between two static
\* bodies and for every interaction of the argument the other interactions of
\* the argument that its dynamic bodies are in, counted body by body, number
\* fewer than MAX_COLORS together, group_interactions does not panic and gives
\* every interaction a colour in [0, MAX_COLORS).
C13_PairDegreeBoundSuffices ==
  (pc \in {"group_interactions", "panic"} \/ Returned("group_interactions")) =>
    \/ ColorsInRange /\ pc # "panic"
    \/ ~ NoStaticPairs(interaction_indices)
    \/ ~ PairDegreesBelowMaxColors(interaction_indices)

\* A call returned in which a body is in MAX_COLORS interactions against
\* static bodies: the last of them found one colour left, the highest.
C13_Witness ==
  /\ Returned("group_interactions")
  /\ interaction_indices = Star(MAX_COLORS)
  /\ interaction_colors[MAX_COLORS] = MAX_COLORS - 1
  /\ Len(groups) = MAX_COLORS + 1
  /\ PairDegreesBelowMaxColors(interaction_indices)

\* ------------------------------------------------------------ static bodies

\* The interaction the running grouping call places next, if it places one:
\* not skipped for its contact count, not between two static bodies, and a
\* joint that supports simd constraints.
NextPlaced ==
  IF pc = "group_joints"
    THEN LET i == interaction_indices[pos + 1]
         IN  IF ~ StaticStatic(i) /\ supports_simd_constraints(i) THEN {i} ELSE {}
  ELSE IF pc = "group_manifolds"
    THEN LET i == interaction_indices[pos + 1]
         IN  IF ~ StaticStatic(i) /\ num_active_contacts(i) = k THEN {i} ELSE {}
  ELSE {}

\* The conflicts of the code for interaction i in the current state.
CodeConflicts(i) ==
  IF pc = "group_joints" THEN JointConflicts(Workspace, i)
  ELSE ManifoldConflicts(Workspace, i)

\* The conflicts of interaction i by the masks of its dynamic bodies only
\* and, for a joint, the conflict entry of its type.
DynamicOnlyConflicts(i) ==
  UNION {body_masks[b + 1] : b \in DynamicBodies(i)}
    \cup (IF pc = "group_joints" THEN joint_type_conflicts[type_id(i)] ELSE {})

\* C14: in group_manifolds and group_joints, the target bucket chosen for an
\* interaction with exactly one dynamic body is the one chosen from the mask
\* of that body, occupied_mask and (joints) the conflict entry of its type:
\* the offset of the static body is not consulted, also when it is the offset
\* of another dynamic body of the island.
C14_StaticOffsetIsNotConsulted ==
  \A i \in NextPlaced :
    Cardinality(DynamicBodies(i)) = 1 /\ (is_static1(i) \/ is_static2(i)) =>
      TargetIndex(CodeConflicts(i), occupied_mask)
        = TargetIndex(DynamicOnlyConflicts(i), occupied_mask)

\* ------------------------------------------------------------ density of colours

\* The colours given to a position of the argument so far.
UsedColors == {c \in Slots : color_len[c] > 0}

\* C15: during and after group_interactions, the colours with color_len > 0
\* are exactly 0 .. n - 1 for some n, and color_len counts the positions given
\* each colour; so the offset loop, which stops at the first colour with
\* color_len = 0, makes one group per colour in use, and on return every
\* position of the argument has its index in the slice of sorted_interactions
\* of its colour.
C15_UsedColorsAreDense ==
  InOrAfter("group_interactions") =>
    LET done == IF pc = "idle" THEN Len(interaction_indices) ELSE pos
    IN  /\ UsedColors = 0 .. (Cardinality(UsedColors) - 1)
        /\ {interaction_colors[p] : p \in 1 .. done} = UsedColors
        /\ pc = "idle" =>
             /\ Len(groups) = Cardinality(UsedColors) + 1
             /\ \A p \in 1 .. done :
                  \E d \in (groups[interaction_colors[p] + 1] + 1)
                            .. groups[interaction_colors[p] + 2] :
                    sorted_interactions[d] = interaction_indices[p]

\* A call returned that gave the lowest colour twice and two more colours
\* once, the highest last.
C15_Witness ==
  /\ Returned("group_interactions")
  /\ Len(interaction_indices) = 4
  /\ color_len[0] = 2 /\ color_len[1] = 1 /\ color_len[2] = 1
  /\ interaction_colors[4] = 2

\* ------------------------------------------------------------ target selection

\* The slots of the buckets that are partially filled.
PartialSlots ==
  {s \in DOMAIN buckets : buckets[s].fill \in 1 .. SIMD_LAST_INDEX}

\* The lowest slot of a set of slots.
Lowest(slots) == CHOOSE s \in slots : \A r \in slots : s <= r

SamePass == pc' = pc /\ pos' = pos + 1

\* The step places interaction i in the bucket at target, which held
\* SIMD_LAST_INDEX lanes: its lanes and i go to grouped_interactions; when the
\* pass goes on, the bucket is left with fill 0 and its bit is not in
\* occupied_mask.
Completes(i, target) ==
  LET lanes == [buckets[target].lanes EXCEPT ![SIMD_WIDTH] = i]
  IN  /\ grouped_interactions' = grouped_interactions \o lanes
      /\ SamePass =>
           /\ target \in DOMAIN buckets'
           /\ buckets'[target].fill = 0
           /\ target \notin occupied_mask'

\* C17: while group_joints or group_manifolds runs, between placements, the
\* bits of occupied_mask are the slots of the buckets with fill in
\* 1 .. SIMD_WIDTH - 1 and no bucket has fill SIMD_WIDTH; the placement into
\* a bucket with fill SIMD_WIDTH - 1 appends its SIMD_WIDTH lanes to
\* grouped_interactions and leaves it with fill 0 and its bit cleared.
C17_OccupiedIffPartiallyFilled ==
  /\ [](pc \in {"group_joints", "group_manifolds"} =>
         /\ occupied_mask = PartialSlots
         /\ \A s \in DOMAIN buckets : buckets[s].fill \in 0 .. SIMD_LAST_INDEX)
  /\ [][\A i \in NextPlaced :
          LET target == TargetIndex(CodeConflicts(i), occupied_mask)
          IN  (target \in DOMAIN buckets /\ buckets[target].fill = SIMD_LAST_INDEX)
                => Completes(i, target)]_vars

\* A bucket completed and the call runs on: slot 0 has a bucket with fill 0,
\* no bucket is occupied and grouped_interactions has the SIMD_WIDTH lanes.
C17_Witness ==
  /\ pc \in {"group_joints", "group_manifolds"}
  /\ 0 \in DOMAIN buckets
  /\ buckets[0].fill = 0
  /\ occupied_mask = {}
  /\ grouped_interactions = FullHead

\* ------------------------------------------------------------ joint types

\* The joint types held by the bucket at slot s.
TypesIn(s) == {type_id(buckets[s].lanes[l]) : l \in 1 .. buckets[s].fill}

\* C18: while group_joints runs, between placements, bit s of
\* joint_type_conflicts[t] is set exactly when the bucket at slot s is
\* partially filled and holds a joint of a type other than t; so after a
\* bucket completed its bit is in no entry.
C18_TypeConflictsIffOtherType ==
  pc = "group_joints" =>
    \A t \in JointTypes :
      joint_type_conflicts[t] = {s \in PartialSlots : TypesIn(s) \ {t} # {}}

\* group_joints runs with a joint of type 0 in the bucket at slot 0 and the
\* joint of type 2 in the bucket at slot 1.
C18_Witness ==
  /\ pc = "group_joints"
  /\ PartialSlots = {0, 1}
  /\ TypesIn(0) = {0}
  /\ TypesIn(1) = {2}
  /\ joint_type_conflicts[2] = {0}
  /\ joint_type_conflicts[0] = {1}

\* ------------------------------------------------------------ static pairs

\* The running call is at an interaction between two static bodies (in
\* group_manifolds: one with the contact count of the pass).
AtStaticPair ==
  /\ pc \in {"group_joints", "group_manifolds"}
  /\ StaticStatic(interaction_indices[pos + 1])
  /\ pc = "group_manifolds" => num_active_contacts(interaction_indices[pos + 1]) = k

\* The running call has been at an interaction between two static bodies.
PassedStaticPair == \E p \in 1 .. pos : StaticStatic(interaction_indices[p])

\* The argument without its interactions between two static bodies.
WithoutStaticPairs(input) == SelectSeq(input, LAMBDA i : ~ StaticStatic(i))

\* The workspace of the running call, had the argument been without its
\* interactions between two static bodies up to the current position.
AsIfAbsent ==
  LET before == WithoutStaticPairs(SubSeq(interaction_indices, 1, pos))
      fresh == FreshWorkspace(Len(body_masks))
  IN  IF pc = "group_joints" THEN JointLoop(fresh, before, 1)
      ELSE ManifoldLoop(fresh, before, k, 1)

\* C19: the iteration of group_joints or group_manifolds on an interaction
\* between two static bodies changes none of body_masks, occupied_mask, the
\* bucket map, joint_type_conflicts, grouped_interactions and
\* nongrouped_interactions; the buckets and masks of a running call that has
\* been at such interactions are those of the same call on the argument
\* without them, and so is what the call has appended to the outputs when it
\* returns.
C19_StaticPairsAreDropped ==
  /\ [][(AtStaticPair /\ SamePass) =>
          UNCHANGED << body_masks, occupied_mask, buckets, joint_type_conflicts,
                       grouped_interactions, nongrouped_interactions >>]_vars
  /\ []((pc \in {"group_joints", "group_manifolds"} /\ PassedStaticPair) =>
          /\ buckets = AsIfAbsent.buckets
          /\ body_masks = AsIfAbsent.body_masks
          /\ occupied_mask = AsIfAbsent.occupied_mask
          /\ joint_type_conflicts = AsIfAbsent.joint_type_conflicts)
  /\ [](pc = "idle" /\ last \in {"group_joints", "group_manifolds"} =>
          LET absent == OnFresh(last, Len(body_masks),
                                WithoutStaticPairs(interaction_indices))
          IN  /\ GroupedByCall = absent.grouped_interactions
              /\ NongroupedByCall = absent.nongrouped_interactions)

\* The call passed an interaction between two static bodies, at the fourth
\* position of its argument, with three lanes of the bucket at slot 0 filled,
\* and runs on.
C19_Witness ==
  /\ pc \in {"group_joints", "group_manifolds"}
  /\ pos = 4
  /\ StaticStatic(interaction_indices[4])
  /\ 0 \in DOMAIN buckets
  /\ buckets[0].fill = SIMD_LAST_INDEX
  /\ Len(interaction_indices) = 5

\* ------------------------------------------------------------ scenario S5

\* The bodies of interaction i, static ones too.
BodiesOf(i) == {body1(i), body2(i)}

\* The positions of input that hold a joint of type t.
PositionsOfType(input, t) == {p \in 1 .. Len(input) : type_id(input[p]) = t}

\* input is SIMD_WIDTH joints of type 0 on pairwise disjoint pairs of dynamic
\* bodies with one joint of type 2 between them that shares no body with
\* them; all support simd constraints.
IsScenarioS5(input) ==
  /\ Len(input) = SIMD_WIDTH + 1
  /\ Cardinality(PositionsOfType(input, 0)) = SIMD_WIDTH
  /\ Cardinality(PositionsOfType(input, 2)) = 1
  /\ PositionsOfType(input, 2) \subseteq 2 .. SIMD_WIDTH
  /\ \A p \in 1 .. Len(input) : supports_simd_constraints(input[p])
  /\ \A p \in PositionsOfType(input, 0) :
       body1(input[p]).dynamic /\ body2(input[p]).dynamic
  /\ \A p, q \in 1 .. Len(input) :
       p # q => BodiesOf(input[p]) \cap BodiesOf(input[q]) = {}

\* The joints of type t among the first n of input, in the order of input.
OfType(input, t, n) ==
  SelectSeq(SubSeq(input, 1, n), LAMBDA i : type_id(i) = t)

\* C20: in group_joints on SIMD_WIDTH = 4 joints of type 0 on pairwise
\* disjoint pairs of dynamic bodies with one joint of type 2, on no body of
\* theirs, somewhere between them: while the call runs the joints of type 0
\* met so far are the lanes of the bucket at slot 0 and the joint of type 2,
\* once met, is alone in the bucket at slot 1; when the call returns it has
\* appended the four joints of type 0, in the order of the argument, to
\* grouped_interactions and the joint of type 2 alone to
\* nongrouped_interactions.
C20_ScenarioS5 ==
  IsScenarioS5(interaction_indices) =>
    /\ pc = "group_joints" =>
         /\ pos > 0 => /\ 0 \in DOMAIN buckets
                       /\ FilledLanes(0) = OfType(interaction_indices, 0, pos)
         /\ OfType(interaction_indices, 2, pos) # << >> =>
              /\ 1 \in DOMAIN buckets
              /\ FilledLanes(1) = OfType(interaction_indices, 2, pos)
         /\ DOMAIN buckets \subseteq {0, 1}
         /\ GroupedByCall = << >>
         /\ NongroupedByCall = << >>
    /\ Returned("group_joints") =>
         /\ GroupedByCall = OfType(interaction_indices, 0, SIMD_WIDTH + 1)
         /\ NongroupedByCall = OfType(interaction_indices, 2, SIMD_WIDTH + 1)

\* group_joints returned from the scenario with the joint of type 2 in the
\* middle of its argument.
C20_Witness ==
  /\ Returned("group_joints")
  /\ interaction_indices = <<9, 12, 7, 3, 13>>
  /\ IsScenarioS5(interaction_indices)
  /\ grouped_interactions = <<9, 12, 3, 13>>
  /\ nongrouped_interactions = <<7>>

====
